---- MODULE Spec2Model ----
(***************************************************************************)
(* A model of app/audio_spoof_api.py: the /detect handler (detect_spoof),  *)
(* the core pipeline (process_base64_audio), feature extraction            *)
(* (extract_audio_features), the rule-based classifier (classify_audio)    *)
(* and the explanation lookup (get_explanation).                           *)
(*                                                                         *)
(* Numbers.  A Python/numpy float is a record [nan, v]: either NaN or a    *)
(* fixed-point value v in units of 1/Scale (four decimals).  Every decimal *)
(* literal of the code (0.5, 0.3, 0.4, 0.6, 0.95, 0.85, 0.70) is a whole   *)
(* number of units, so the classifier's arithmetic is exact on the grid;   *)
(* the binary rounding of IEEE doubles is not modelled.  Comparisons with  *)
(* NaN are false and min() is Python's builtin (it returns its first       *)
(* argument unless the second is strictly smaller).                        *)
(*                                                                         *)
(* Samples.  A decoded sample is an integer in units of 1/SampleDen of     *)
(* full scale; decoded values are even, so the mean of two channels is a   *)
(* whole number of units.                                                  *)
(***************************************************************************)
EXTENDS Integers, Sequences, FiniteSets, TLC

\* ------------------------------------------------------------ floats

\* Units per 1.0 of a fixed-point float.
Scale == 10000

NaN == [nan |-> TRUE, v |-> 0]

F(x) == [nan |-> FALSE, v |-> x]

IsNaN(a) == a.nan

\* a + b, a - b: NaN if either operand is NaN.
FAdd(a, b) == IF a.nan \/ b.nan THEN NaN ELSE F(a.v + b.v)

FSub(a, b) == IF a.nan \/ b.nan THEN NaN ELSE F(a.v - b.v)

\* a * (num/den) and a / (num/den) for a decimal literal num/den.
FMulLit(a, num, den) == IF a.nan THEN NaN ELSE F((a.v * num) \div den)

FDivLit(a, num, den) == IF a.nan THEN NaN ELSE F((a.v * den) \div num)

\* Python's comparisons: every comparison with NaN is False.
FLt(a, b) == ~a.nan /\ ~b.nan /\ a.v < b.v

FGt(a, b) == ~a.nan /\ ~b.nan /\ a.v > b.v

FGe(a, b) == ~a.nan /\ ~b.nan /\ a.v >= b.v

FLe(a, b) == ~a.nan /\ ~b.nan /\ a.v <= b.v

\* Python's builtin min(a, b): b only when b < a, otherwise the first argument.
PyMin(a, b) == IF FLt(b, a) THEN b ELSE a

One == F(Scale)

Zero == F(0)

\* ------------------------------------------------------------ classify_audio

AI_GENERATED == "AI_GENERATED"

HUMAN == "HUMAN"

\* The zero-crossing score without its clamp.
zcr_score_Unclamped(features) == FDivLit(features.zcr, 1, 2)

\* zcr_score = min(features['zcr'] / 0.5, 1.0)
zcr_score(features) == PyMin(FDivLit(features.zcr, 1, 2), One)

\* spectral_score = 1.0 - min(features['spectral_flatness'], 1.0)
spectral_score(features) == FSub(One, PyMin(features.spectral_flatness, One))

\* energy_score = 1.0 - min(features['energy_std'] / 10000, 1.0)
energy_score(features) == FSub(One, PyMin(FDivLit(features.energy_std, 10000, 1), One))

\* ai_score = zcr_score * 0.3 + spectral_score * 0.4 + energy_score * 0.3
ai_score(features) ==
    FAdd(FAdd(FMulLit(zcr_score(features), 3, 10),
              FMulLit(spectral_score(features), 4, 10)),
         FMulLit(energy_score(features), 3, 10))

\* The decision threshold 0.6 and the confidence cap 0.95.
Threshold == F((6 * Scale) \div 10)

ConfCap == F((95 * Scale) \div 100)

\* The threshold taken as inclusive.
IsAI_Inclusive(score) == FGe(score, Threshold)

IsAI(score) == FGt(score, Threshold)

classify_audio(features) ==
    LET score == ai_score(features)
    IN  IF IsAI(score)
        THEN [classification |-> AI_GENERATED, confidence |-> PyMin(score, ConfCap)]
        ELSE [classification |-> HUMAN, confidence |-> PyMin(FSub(One, score), ConfCap)]

\* ------------------------------------------------------------ get_explanation

StrongBand == F((85 * Scale) \div 100)

ModerateBand == F((70 * Scale) \div 100)

AI_STRONG == "Strong synthetic patterns detected (unnatural pitch consistency and robotic speech patterns)"

AI_MODERATE == "Moderate synthetic artifacts detected (artificial harmonics and phase inconsistencies)"

AI_POSSIBLE == "Possible synthetic characteristics detected (some unnatural spectral features)"

HUMAN_STRONG == "Strong natural speech characteristics (organic pitch variations and human breathing patterns)"

HUMAN_MODERATE == "Moderate natural speech patterns (typical human vocal characteristics)"

HUMAN_MOSTLY == "Mostly natural characteristics detected (human-like vocal patterns)"

\* The upper band edge taken as exclusive.
IsStrong_Strict(confidence) == FGt(confidence, StrongBand)

IsStrong(confidence) == FGe(confidence, StrongBand)

IsModerate(confidence) == FGe(confidence, ModerateBand)

get_explanation(confidence, classification) ==
    IF classification = AI_GENERATED
    THEN IF IsStrong(confidence) THEN AI_STRONG
         ELSE IF IsModerate(confidence) THEN AI_MODERATE
         ELSE AI_POSSIBLE
    ELSE IF IsStrong(confidence) THEN HUMAN_STRONG
         ELSE IF IsModerate(confidence) THEN HUMAN_MODERATE
         ELSE HUMAN_MOSTLY

\* ------------------------------------------------------------ signals

\* Units per 1.0 of a decoded sample (torchaudio.load returns samples
\* normalised to [-1.0, 1.0]).
SampleDen == 4

\* The rate every signal is brought to before feature extraction.
TARGET_SR == 16000

Abs(x) == IF x < 0 THEN -x ELSE x

Min(a, b) == IF a < b THEN a ELSE b

RECURSIVE SeqSum(_, _, _)
\* s[lo] + ... + s[hi], by halving.
SeqSum(s, lo, hi) ==
    IF lo > hi THEN 0
    ELSE IF lo = hi THEN s[lo]
    ELSE LET mid == (lo + hi) \div 2
         IN  SeqSum(s, lo, mid) + SeqSum(s, mid + 1, hi)

RECURSIVE ISqrtIn(_, _, _)
\* The largest r in lo..hi with r*r <= x (lo*lo <= x).
ISqrtIn(x, lo, hi) ==
    IF lo >= hi THEN lo
    ELSE LET mid == (lo + hi + 1) \div 2
         IN  IF mid * mid <= x THEN ISqrtIn(x, mid, hi) ELSE ISqrtIn(x, lo, mid - 1)

\* floor(sqrt(x)) for 0 <= x < 2^30.
ISqrt(x) == ISqrtIn(x, 0, 32767)

\* Python's range(start, stop, step), step > 0, as a sequence.
PyRange(start, stop, step) ==
    IF stop <= start THEN << >>
    ELSE [k \in 1..(((stop - start - 1) \div step) + 1) |-> start + (k - 1) * step]

\* np.sign
sign(x) == IF x > 0 THEN 1 ELSE IF x < 0 THEN -1 ELSE 0

\* ------------------------------------------------------------ extract_audio_features

\* if len(signal.shape) > 1: signal = signal[0]   (the tensor is always 2-D here)
FirstRow(signal) == signal[1]

\* zcr = np.mean(np.abs(np.diff(np.sign(signal)))); the mean of an empty
\* array (a signal of one sample) is nan, with a warning and no exception.
ZeroCrossingRate(sig) ==
    LET n == Len(sig)
    IN  IF n <= 1 THEN NaN
        ELSE F((SeqSum([i \in 1..(n - 1) |-> Abs(sign(sig[i + 1]) - sign(sig[i]))],
                       1, n - 1) * Scale) \div (n - 1))

\* frame_length = int(0.025 * sr); hop_length = int(0.010 * sr)
frame_length(sr) == (25 * sr) \div 1000

hop_length(sr) == (10 * sr) \div 1000

\* for i in range(0, len(signal) - frame_length, hop_length)
FrameStarts(sig, sr) == PyRange(0, Len(sig) - frame_length(sr), hop_length(sr))

\* energy = np.sum(frame ** 2) for frame = signal[i:i+frame_length], in
\* units of 1/SampleDen^2.
FrameEnergy(sig, i, sr) ==
    LET last == Min(Len(sig), i + frame_length(sr))
    IN  SeqSum([j \in 1..last |-> sig[j] * sig[j]], i + 1, last)

energy_variations(sig, sr) ==
    LET starts == FrameStarts(sig, sr)
    IN  [k \in 1..Len(starts) |-> FrameEnergy(sig, starts[k], sr)]

\* np.std(e) = sqrt(mean(e^2) - mean(e)^2) = sqrt(n*sum(e^2) - sum(e)^2) / n
StdOf(e) ==
    LET n  == Len(e)
        s1 == SeqSum(e, 1, n)
        s2 == SeqSum([k \in 1..n |-> e[k] * e[k]], 1, n)
    IN  F((ISqrt(n * s2 - s1 * s1) * Scale) \div (n * SampleDen * SampleDen))

\* No guard: np.std of an empty list is nan.
EnergyStd_NoGuard(sig, sr) ==
    LET e == energy_variations(sig, sr)
    IN  IF Len(e) > 0 THEN StdOf(e) ELSE NaN

\* energy_std = np.std(energy_variations) if len(energy_variations) > 0 else 0
EnergyStd(sig, sr) ==
    LET e == energy_variations(sig, sr)
    IN  IF Len(e) > 0 THEN StdOf(e) ELSE Zero


\* ------------------------------------------------------------ the spectrum

\* fft = np.fft.fft(signal); magnitude = np.abs(fft[:len(fft)//2]).  The model
\* does not compute a transform.  It knows the half spectrum of the signals
\* whose transform has a closed form and takes the spectral summary of every
\* other signal from `oracle`, a value fixed for the whole behaviour: the
\* transform is a function of the signal, whatever its values are.
HalfBins(sig) == Len(sig) \div 2

AllZero(sig) == \A i \in 1..Len(sig) : sig[i] = 0

Constant(sig) == \A i \in 1..Len(sig) : sig[i] = sig[1]

\* sig[n] = a + b*(-1)^n: only the bins 0 and N/2 can be non-zero (N even).
DCPlusNyquist(sig) ==
    /\ Len(sig) % 2 = 0
    /\ \A i \in 1..(Len(sig) - 2) : sig[i + 2] = sig[i]

\* Every bin of the first half is zero: silence, or a pure Nyquist alternation.
HalfSpectrumZero(sig) ==
    \/ AllZero(sig)
    \/ DCPlusNyquist(sig) /\ sig[1] + sig[2] = 0

\* Bin 0 is the only non-zero bin of the first half.
DCOnly(sig) ==
    \/ Constant(sig) /\ sig[1] # 0
    \/ DCPlusNyquist(sig) /\ sig[1] + sig[2] # 0

\* Exactly one non-zero sample: every bin has the same magnitude.
Impulse(sig) == Cardinality({i \in 1..Len(sig) : sig[i] # 0}) = 1

\* spectral_flatness = np.exp(np.mean(np.log(magnitude + 1e-10)))
\*                     / (np.mean(magnitude) + 1e-10)
SpectralFlatness(sig, orc) ==
    IF HalfBins(sig) = 0 THEN NaN              \* means of an empty array
    ELSE IF HalfBins(sig) = 1 THEN One         \* one bin: (m + eps) / (m + eps)
    ELSE IF HalfSpectrumZero(sig) THEN One     \* eps / eps
    ELSE IF DCOnly(sig) THEN Zero              \* about eps / mean, below a unit
    ELSE IF Impulse(sig) THEN One              \* flat spectrum
    ELSE F(orc.flat)

\* spectral_centroid = np.sum(freqs * magnitude) / (np.sum(magnitude) + 1e-10),
\* in whole Hz.
SpectralCentroid(sig, sr, orc) ==
    IF HalfBins(sig) = 0 THEN Zero             \* 0 / (0 + eps)
    ELSE IF HalfBins(sig) = 1 THEN Zero        \* only the bin of frequency 0
    ELSE IF HalfSpectrumZero(sig) THEN Zero
    ELSE IF DCOnly(sig) THEN Zero
    ELSE IF Impulse(sig)                       \* the mean of the frequencies
         THEN F(((sr * (HalfBins(sig) - 1)) \div (2 * Len(sig))) * Scale)
    ELSE F(orc.centroid * Scale)

\* np.fft.fft raises ValueError("Invalid number of FFT data points (0)") on an
\* empty signal; nothing else in the function raises.
ExtractRaises(signal) == Len(FirstRow(signal)) = 0

extract_audio_features(signal, sr, orc) ==
    LET sig == FirstRow(signal)
    IN  [zcr               |-> ZeroCrossingRate(sig),
         spectral_centroid |-> SpectralCentroid(sig, sr, orc),
         spectral_flatness |-> SpectralFlatness(sig, orc),
         energy_std        |-> EnergyStd(sig, sr)]

\* ------------------------------------------------------------ normalisation

\* torchaudio.transforms.Resample(sr, 16000): ceil(16000 * L / sr) samples per
\* channel.  The windowed-sinc kernel is stood in for by holding the nearest
\* earlier input sample.
ResampleChannel(ch, sr) ==
    LET n == (TARGET_SR * Len(ch) + sr - 1) \div sr
    IN  [j \in 1..n |-> ch[Min(Len(ch), (((j - 1) * sr) \div TARGET_SR) + 1)]]

Resample(signal, sr) == [c \in 1..Len(signal) |-> ResampleChannel(signal[c], sr)]

\* torch.mean(signal, dim=0, keepdim=True): one row, the mean over the channels
\* at each sample index.
ChannelMean(signal) ==
    << [i \in 1..Len(signal[1]) |->
          SeqSum([c \in 1..Len(signal) |-> signal[c][i]], 1, Len(signal))
             \div Len(signal)] >>

\* No downmix: the feature extractor then reads the first channel alone.
Downmixed_FirstOnly(signal) == signal

\* if signal.shape[0] > 1: signal = torch.mean(signal, dim=0, keepdim=True)
Downmixed(signal) == IF Len(signal) > 1 THEN ChannelMean(signal) ELSE signal


\* ------------------------------------------------------------ strings

\* A format string is a sequence of characters, so that str.lower() acts on it.
Upper == <<"A", "C", "F", "G", "L", "M", "O", "P", "T", "V", "W", "X">>

LowerOf == <<"a", "c", "f", "g", "l", "m", "o", "p", "t", "v", "w", "x">>

LowerChar(ch) ==
    IF \E k \in 1..Len(Upper) : Upper[k] = ch
    THEN LowerOf[CHOOSE k \in 1..Len(Upper) : Upper[k] = ch]
    ELSE ch

\* str.lower()
Lower(str) == [i \in 1..Len(str) |-> LowerChar(str[i])]

\* supported_formats = ["mp3", "wav", "m4a", "ogg", "flac", "aac"]
supported_formats ==
    << <<"m", "p", "3">>, <<"w", "a", "v">>, <<"m", "4", "a">>,
       <<"o", "g", "g">>, <<"f", "l", "a", "c">>, <<"a", "a", "c">> >>

InList(x, list) == \E k \in 1..Len(list) : list[k] = x

\* The membership test without .lower().
FormatSupported_CaseSensitive(audioFormat) == InList(audioFormat, supported_formats)

FormatSupported(audioFormat) == InList(Lower(audioFormat), supported_formats)

\* A message is a sequence of words; "needle in message" is a contiguous run.
Contains(message, needle) ==
    \E k \in 0..(Len(message) - Len(needle)) :
        \A j \in 1..Len(needle) : message[k + j] = needle[j]

MSG_401 == <<"Invalid", "API", "key", "or", "malformed", "request">>

\* f"Unsupported audio format. Supported: {', '.join(supported_formats)}"
MSG_400 == <<"Unsupported", "audio", "format.", "Supported:",
             "mp3,", "wav,", "m4a,", "ogg,", "flac,", "aac">>

\* f"Error processing audio: {str(e)}"
Msg500(e) == <<"Error", "processing", "audio:">> \o e

\* ------------------------------------------------------------ requests

VALID_API_KEY == "your-secret-api-key-here"

\* The X-API-Key header: Optional[str], None when the header is missing.
NoKey == [present |-> FALSE, value |-> ""]

Key(str) == [present |-> TRUE, value |-> str]

\* Any key that is present passes.
verify_api_key_AnyKey(api_key) == api_key.present

\* return api_key == VALID_API_KEY
verify_api_key(api_key) == api_key.present /\ api_key.value = VALID_API_KEY

ApiKeys == {NoKey, Key("wrong-key"), Key(VALID_API_KEY)}

Languages == {"English", "Tamil-script"}

Formats ==
    { <<"m", "p", "3">>, <<"w", "a", "v">>, <<"m", "4", "a">>, <<"o", "g", "g">>,
      <<"f", "l", "a", "c">>, <<"a", "a", "c">>,
      <<"M", "P", "3">>, <<"f", "L", "a", "C">>,
      <<"t", "x", "t">>, <<"w", "a", "v", " ">>, << >> }

\* One channel of a clip: a waveform of `len` samples.
Wave(kind, amp) == [kind |-> kind, amp |-> amp]

\* A ten-sample period with two sign changes, and a burst followed by silence.
SpeechPeriod == <<4, 2, 4, 2, 4, 2, 4, 2, 2, -2>>

BurstLen == 200

Sample(w, i) ==
    CASE w.kind = "zero"    -> 0
      [] w.kind = "const"   -> w.amp
      [] w.kind = "alt"     -> IF i % 2 = 1 THEN w.amp ELSE -w.amp
      [] w.kind = "impulse" -> IF i = 1 THEN w.amp ELSE 0
      [] w.kind = "speech"  -> SpeechPeriod[((i - 1) % Len(SpeechPeriod)) + 1]
      [] w.kind = "burst"   -> IF i <= BurstLen THEN w.amp ELSE 0

\* An audio file: its sample rate, its length in samples and its channels.
Clip(sr, len, chans) == [sr |-> sr, len |-> len, chans |-> chans]

NoClip == Clip(0, 0, << >>)

\* What torchaudio.load returns for a clip: a channels-by-samples tensor.
Decode(clip) == [c \in 1..Len(clip.chans) |-> [i \in 1..clip.len |-> Sample(clip.chans[c], i)]]


\* ------------------------------------------------------------ inputs

\* Requests handled one after the other.
MaxRequests == 1

\* Short clips have 0..MaxShort samples.
MaxShort == 4

\* Long clips have up to MaxFrames hops past one full frame.
MaxFrames == 2

FrameLen == frame_length(TARGET_SR)

HopLen == hop_length(TARGET_SR)

\* One sample short of a frame, exactly a frame, exactly a frame and a hop,
\* and a sample past k hops.
FrameLens ==
    {FrameLen - 1, FrameLen, FrameLen + HopLen}
        \cup {FrameLen + k * HopLen + 1 : k \in 0..MaxFrames}

ShortClips ==
    { Clip(TARGET_SR, n, <<w>>) :
        n \in 0..MaxShort,
        w \in {Wave("zero", 0), Wave("alt", 4), Wave("speech", 4)} }

LongClips ==
    { Clip(TARGET_SR, n, <<w>>) :
        n \in FrameLens, w \in {Wave("impulse", 4), Wave("burst", 4)} }

StereoClips ==
    { Clip(TARGET_SR, n, ws) :
        n \in {1, MaxShort},
        ws \in { <<Wave("const", 4), Wave("const", 2)>>,
                 <<Wave("zero", 0), Wave("const", -4)>>,
                 <<Wave("speech", 4), Wave("impulse", 4)>> } }

OtherRateClips ==
    { Clip(8000, 1, <<Wave("const", 2)>>),
      Clip(8000, FrameLen \div 2, <<Wave("burst", 4)>>),
      Clip(8000, MaxShort, <<Wave("const", 4), Wave("alt", 2)>>),
      Clip(44100, MaxShort, <<Wave("impulse", 4)>>) }

Clips == ShortClips \cup LongClips \cup StereoClips \cup OtherRateClips

\* The bytes a payload decodes to: an audio file, plain text, or nothing.
AudioBytes(clip) == [kind |-> "audio", clip |-> clip]

TextBytes == [kind |-> "text", clip |-> NoClip]

EmptyBytes == [kind |-> "empty", clip |-> NoClip]

\* audioBase64: a string that base64.b64decode turns into `data`, or on which
\* it raises binascii.Error (incorrect padding).
Payload(padded, data) == [padded |-> padded, data |-> data]

Payloads ==
    { Payload(TRUE, AudioBytes(c)) : c \in Clips }
        \cup { Payload(TRUE, TextBytes), Payload(TRUE, EmptyBytes), Payload(FALSE, EmptyBytes) }

\* The spectral summaries the transform may give a signal with no closed form:
\* flatness in units of 1/Scale, centroid in Hz.
FlatSteps == 2

Spectra ==
    { [flat |-> (k * Scale) \div FlatSteps, centroid |-> (k * TARGET_SR) \div (2 * FlatSteps + 2)] :
        k \in 0..FlatSteps }


\* ------------------------------------------------------------ state

VARIABLES
    pc,             \* where the handler of the request in hand stands
    handled,        \* requests received so far
    req,            \* the request: api_key, audioFormat, audioBase64, language
    files,          \* the temporary files that exist, by the id in their name
    temp_file,      \* the file NamedTemporaryFile created in this call (0: none)
    temp_path,      \* the local temp_path (0: not in locals())
    audio_format,   \* the suffix argument the pipeline was called with
    audio_bytes,    \* the local audio_bytes
    signal,         \* the local signal: channels by samples
    sr,             \* the local sr
    features,       \* the local features
    classification, \* the local classification
    confidence,     \* the local confidence
    explanation,    \* the local explanation
    exc,            \* the exception being raised (its str(e)), << >> if none
    resp,           \* the response returned to the client
    calls,          \* process_base64_audio invocations for this request
    steps,          \* the library calls attempted for this request
    oracle,         \* the spectral summary of the signals with no closed form
    inflight,       \* the requests the server has accepted and not yet started
    answered        \* the handler runs that have ended, in the order they ended

vars == <<pc, handled, req, files, temp_file, temp_path, audio_format, audio_bytes,
          signal, sr, features, classification, confidence, explanation, exc,
          resp, calls, steps, oracle, inflight, answered>>

locals == <<temp_file, temp_path, audio_format, audio_bytes, signal, sr, features,
            classification, confidence, explanation, exc>>

NoRequest == [api_key |-> NoKey, audioFormat |-> << >>,
              audioBase64 |-> Payload(TRUE, EmptyBytes), language |-> ""]

NoFeatures == [zcr |-> Zero, spectral_centroid |-> Zero,
               spectral_flatness |-> Zero, energy_std |-> Zero]

NoResp == [status_code |-> 0, status |-> "", message |-> << >>, language |-> "",
           classification |-> "", confidenceScore |-> Zero, explanation |-> ""]

\* JSONResponse(status_code=..., content=ErrorResponse(status="error", message=...))
ErrorResponse(code, message) ==
    [status_code |-> code, status |-> "error", message |-> message, language |-> "",
     classification |-> "", confidenceScore |-> Zero, explanation |-> ""]

\* round(confidence, 2): to the nearest hundredth, ties to even; nan stays nan.
Round2(a) ==
    IF a.nan THEN NaN
    ELSE LET unit == Scale \div 100
             q    == a.v \div unit
             r    == a.v % unit
         IN  F(unit * (IF 2 * r > unit \/ (2 * r = unit /\ q % 2 = 1) THEN q + 1 ELSE q))

\* SuccessResponse(status="success", language=..., classification=...,
\*                 confidenceScore=round(confidence, 2), explanation=...)
SuccessResponse(language, class, conf, expl) ==
    [status_code |-> 200, status |-> "success", message |-> << >>, language |-> language,
     classification |-> class, confidenceScore |-> Round2(conf), explanation |-> expl]

LocalsInit ==
    /\ temp_file = 0
    /\ temp_path = 0
    /\ audio_format = << >>
    /\ audio_bytes = EmptyBytes
    /\ signal = << >>
    /\ sr = 0
    /\ features = NoFeatures
    /\ classification = ""
    /\ confidence = Zero
    /\ explanation = ""
    /\ exc = << >>

\* The locals of a new call.
LocalsReset ==
    /\ temp_file' = 0
    /\ temp_path' = 0
    /\ audio_format' = << >>
    /\ audio_bytes' = EmptyBytes
    /\ signal' = << >>
    /\ sr' = 0
    /\ features' = NoFeatures
    /\ classification' = ""
    /\ confidence' = Zero
    /\ explanation' = ""
    /\ exc' = << >>

Init ==
    /\ pc = "idle"
    /\ handled = 0
    /\ req = NoRequest
    /\ files = {}
    /\ LocalsInit
    /\ resp = NoResp
    /\ calls = 0
    /\ steps = {}
    /\ oracle \in Spectra
    /\ inflight = {}
    /\ answered = << >>


\* ------------------------------------------------------------ detect_spoof

\* The framework calls detect_spoof with a validated request body and the
\* X-API-Key header.  The handler is an async function with no await in it, so
\* the event loop runs it to its response before it takes the next request.
Receive ==
    /\ pc = "idle"
    /\ handled < MaxRequests
    /\ \E k \in ApiKeys, f \in Formats, p \in Payloads, l \in Languages :
          req' = [api_key |-> k, audioFormat |-> f, audioBase64 |-> p, language |-> l]
    /\ handled' = handled + 1
    /\ pc' = "verify"
    /\ UNCHANGED <<files, locals, resp, calls, steps, oracle, inflight, answered>>

\* if not verify_api_key(api_key): return JSONResponse(status_code=401, ...)
VerifyKey ==
    /\ pc = "verify"
    /\ IF verify_api_key(req.api_key)
       THEN pc' = "format" /\ UNCHANGED resp
       ELSE pc' = "done" /\ resp' = ErrorResponse(401, MSG_401)
    /\ UNCHANGED <<handled, req, files, locals, calls, steps, oracle, inflight, answered>>

\* if request.audioFormat.lower() not in supported_formats: return 400;
\* otherwise enter the try block and call process_base64_audio.
ValidateFormat ==
    /\ pc = "format"
    /\ IF FormatSupported(req.audioFormat)
       THEN /\ pc' = "b64decode"
            /\ calls' = calls + 1
            /\ audio_format' = req.audioFormat
            /\ UNCHANGED resp
       ELSE /\ pc' = "done"
            /\ resp' = ErrorResponse(400, MSG_400)
            /\ UNCHANGED <<calls, audio_format>>
    /\ UNCHANGED <<handled, req, files, temp_file, temp_path, audio_bytes, signal, sr,
                   features, classification, confidence, explanation, exc, steps,
                   oracle, inflight, answered>>

\* ------------------------------------------------------------ process_base64_audio

\* A statement of the try block raises: control goes to the except clause.
Raise(e) ==
    /\ exc' = e
    /\ pc' = "except"

\* audio_bytes = base64.b64decode(audio_base64)
B64Decode ==
    /\ pc = "b64decode"
    /\ steps' = steps \cup {"b64decode"}
    /\ IF req.audioBase64.padded
       THEN /\ audio_bytes' = req.audioBase64.data
            /\ pc' = "mktemp"
            /\ UNCHANGED exc
       ELSE /\ Raise(<<"Incorrect", "padding">>)
            /\ UNCHANGED audio_bytes
    /\ UNCHANGED <<handled, req, files, temp_file, temp_path, audio_format, signal, sr,
                   features, classification, confidence, explanation, resp, calls,
                   oracle, inflight, answered>>

\* tempfile.NamedTemporaryFile(delete=False, suffix=...): a new file under a
\* name no existing file has.
\* Every call writes the same path.
FreshName_Fixed == Min(handled, 1)

FreshName == handled

MakeTemp ==
    /\ pc = "mktemp"
    /\ steps' = steps \cup {"mktemp"}
    /\ \/ /\ files' = files \cup {FreshName}
          /\ temp_file' = FreshName
          /\ pc' = "write"
          /\ UNCHANGED exc
       \/ /\ Raise(<<"OSError:", "cannot", "create", "file">>)
          /\ UNCHANGED <<files, temp_file>>
    /\ UNCHANGED <<handled, req, temp_path, audio_format, audio_bytes, signal, sr,
                   features, classification, confidence, explanation, resp, calls,
                   oracle, inflight, answered>>

\* temp_file.write(audio_bytes); temp_path = temp_file.name.  A write that
\* raises (no space left on the device) leaves the with block before temp_path
\* is assigned; the with block closes the file and does not delete it.
WriteTemp ==
    /\ pc = "write"
    /\ \/ /\ temp_path' = temp_file
          /\ pc' = "close"
          /\ UNCHANGED exc
       \/ /\ Raise(<<"OSError:", "No", "space", "left", "on", "device">>)
          /\ UNCHANGED temp_path
    /\ UNCHANGED <<handled, req, files, temp_file, audio_format, audio_bytes, signal, sr,
                   features, classification, confidence, explanation, resp, calls,
                   steps, oracle, inflight, answered>>

\* The end of the with block: the file is flushed and closed.
CloseTemp ==
    /\ pc = "close"
    /\ \/ pc' = "load" /\ UNCHANGED exc
       \/ Raise(<<"OSError:", "No", "space", "left", "on", "device">>)
    /\ UNCHANGED <<handled, req, files, temp_file, temp_path, audio_format, audio_bytes,
                   signal, sr, features, classification, confidence, explanation,
                   resp, calls, steps, oracle, inflight, answered>>

\* signal, sr = torchaudio.load(temp_path): raises on bytes that are no audio
\* file, and may raise on any file (a backend that cannot read the container).
Load ==
    /\ pc = "load"
    /\ steps' = steps \cup {"load"}
    /\ \/ /\ audio_bytes.kind = "audio"
          /\ signal' = Decode(audio_bytes.clip)
          /\ sr' = audio_bytes.clip.sr
          /\ pc' = "unlink"
          /\ UNCHANGED exc
       \/ /\ Raise(<<"Failed", "to", "open", "the", "input">>)
          /\ UNCHANGED <<signal, sr>>
    /\ UNCHANGED <<handled, req, files, temp_file, temp_path, audio_format, audio_bytes,
                   features, classification, confidence, explanation, resp, calls,
                   oracle, inflight, answered>>

\* os.unlink(temp_path)
Unlink ==
    /\ pc = "unlink"
    /\ files' = files \ {temp_path}
    /\ pc' = "resample"
    /\ UNCHANGED <<handled, req, locals, resp, calls, steps, oracle, inflight, answered>>

\* if sr != 16000: signal = Resample(sr, 16000)(signal); sr = 16000
ResampleStep ==
    /\ pc = "resample"
    /\ \/ /\ IF sr # TARGET_SR
             THEN signal' = Resample(signal, sr) /\ sr' = TARGET_SR
             ELSE UNCHANGED <<signal, sr>>
          /\ pc' = "downmix"
          /\ UNCHANGED exc
       \/ /\ sr # TARGET_SR
          /\ Raise(<<"RuntimeError:", "resample">>)
          /\ UNCHANGED <<signal, sr>>
    /\ UNCHANGED <<handled, req, files, temp_file, temp_path, audio_format, audio_bytes,
                   features, classification, confidence, explanation, resp, calls,
                   steps, oracle, inflight, answered>>

\* if signal.shape[0] > 1: signal = torch.mean(signal, dim=0, keepdim=True)
DownmixStep ==
    /\ pc = "downmix"
    /\ \/ /\ signal' = Downmixed(signal)
          /\ pc' = "extract"
          /\ UNCHANGED exc
       \/ /\ Len(signal) > 1
          /\ Raise(<<"RuntimeError:", "mean">>)
          /\ UNCHANGED signal
    /\ UNCHANGED <<handled, req, files, temp_file, temp_path, audio_format, audio_bytes,
                   sr, features, classification, confidence, explanation, resp, calls,
                   steps, oracle, inflight, answered>>

\* The last sample of the signal the extractor saw in the run before (0 if none).
CarriedSample ==
    IF answered = << >> THEN 0
    ELSE LET prev == answered[Len(answered)].signal
         IN  IF prev = << >> \/ Len(prev[1]) = 0 THEN 0 ELSE prev[1][Len(prev[1])]

\* The extractor keeps the last sample of the previous call in a module-level
\* buffer and counts the crossing from it into the new signal.
ExtractStep_Stateful ==
    /\ pc = "extract"
    /\ steps' = steps \cup {"extract"}
    /\ IF ExtractRaises(signal)
       THEN /\ Raise(<<"Invalid", "number", "of", "FFT", "data", "points", "(0)", "specified.">>)
            /\ UNCHANGED features
       ELSE /\ features' = [extract_audio_features(signal, sr, oracle) EXCEPT
                               !.zcr = ZeroCrossingRate(<<CarriedSample>> \o FirstRow(signal))]
            /\ pc' = "classify"
            /\ UNCHANGED exc
    /\ UNCHANGED <<handled, req, files, temp_file, temp_path, audio_format, audio_bytes,
                   signal, sr, classification, confidence, explanation, resp, calls,
                   oracle, inflight, answered>>

\* features = extract_audio_features(signal, sr); its except clause logs and
\* re-raises.
ExtractStep ==
    /\ pc = "extract"
    /\ steps' = steps \cup {"extract"}
    /\ IF ExtractRaises(signal)
       THEN /\ Raise(<<"Invalid", "number", "of", "FFT", "data", "points", "(0)", "specified.">>)
            /\ UNCHANGED features
       ELSE /\ features' = extract_audio_features(signal, sr, oracle)
            /\ pc' = "classify"
            /\ UNCHANGED exc
    /\ UNCHANGED <<handled, req, files, temp_file, temp_path, audio_format, audio_bytes,
                   signal, sr, classification, confidence, explanation, resp, calls,
                   oracle, inflight, answered>>

\* classification, confidence = classify_audio(features); return them
ClassifyStep ==
    /\ pc = "classify"
    /\ steps' = steps \cup {"classify"}
    /\ classification' = classify_audio(features).classification
    /\ confidence' = classify_audio(features).confidence
    /\ pc' = "explain"
    /\ UNCHANGED <<handled, req, files, temp_file, temp_path, audio_format, audio_bytes,
                   signal, sr, features, explanation, exc, resp, calls, oracle, inflight, answered>>

\* 'temp_path' in locals() and os.path.exists(temp_path)
MustCleanUp == temp_path # 0 /\ temp_path \in files

\* except Exception: if 'temp_path' in locals() and os.path.exists(temp_path):
\* os.unlink(temp_path); raise
Except ==
    /\ pc = "except"
    /\ files' = IF MustCleanUp THEN files \ {temp_path} ELSE files
    /\ pc' = "handler_except"
    /\ UNCHANGED <<handled, req, locals, resp, calls, steps, oracle, inflight, answered>>

\* ------------------------------------------------------------ detect_spoof, continued

\* explanation = get_explanation(confidence, classification)
Explain ==
    /\ pc = "explain"
    /\ explanation' = get_explanation(confidence, classification)
    /\ pc' = "respond"
    /\ UNCHANGED <<handled, req, files, temp_file, temp_path, audio_format, audio_bytes,
                   signal, sr, features, classification, confidence, exc, resp, calls,
                   steps, oracle, inflight, answered>>

\* The response names a fixed language instead of the request's.
Respond_FixedLanguage ==
    /\ pc = "respond"
    /\ resp' = SuccessResponse("English", classification, confidence, explanation)
    /\ pc' = "done"
    /\ UNCHANGED <<handled, req, files, locals, calls, steps, oracle, inflight, answered>>

\* return SuccessResponse(...)
Respond ==
    /\ pc = "respond"
    /\ resp' = SuccessResponse(req.language, classification, confidence, explanation)
    /\ pc' = "done"
    /\ UNCHANGED <<handled, req, files, locals, calls, steps, oracle, inflight, answered>>

\* The handler swallows the failure and answers as if the pipeline had returned.
HandlerExcept_Swallow ==
    /\ pc = "handler_except"
    /\ resp' = SuccessResponse(req.language, classification, confidence, explanation)
    /\ pc' = "done"
    /\ UNCHANGED <<handled, req, files, locals, calls, steps, oracle, inflight, answered>>

\* except Exception as e: return JSONResponse(status_code=500, ...)
HandlerExcept ==
    /\ pc = "handler_except"
    /\ resp' = ErrorResponse(500, Msg500(exc))
    /\ pc' = "done"
    /\ UNCHANGED <<handled, req, files, locals, calls, steps, oracle, inflight, answered>>

\* The response has gone out and the handler's frame is released: the event
\* loop is free for the next request.  Only the file system keeps anything.
Finish ==
    /\ pc = "done"
    /\ pc' = "idle"
    /\ req' = NoRequest
    /\ LocalsReset
    /\ resp' = NoResp
    /\ calls' = 0
    /\ steps' = {}
    /\ UNCHANGED <<handled, files, oracle, inflight, answered>>

Next ==
    \/ Receive
    \/ VerifyKey
    \/ ValidateFormat
    \/ B64Decode
    \/ MakeTemp
    \/ WriteTemp
    \/ CloseTemp
    \/ Load
    \/ Unlink
    \/ ResampleStep
    \/ DownmixStep
    \/ ExtractStep
    \/ ClassifyStep
    \/ Except
    \/ Explain
    \/ Respond
    \/ HandlerExcept
    \/ Finish

Spec == Init /\ [][Next]_vars


\* ------------------------------------------------------------ requests in flight together

\* Several clients post at once.  uvicorn.run(app) serves them from one event
\* loop, and detect_spoof is a coroutine with no await in it: the loop starts
\* the handler of one accepted request, in any order, and runs it to its
\* response before it starts the next.  What one run leaves to the next is the
\* file system.
MaxInFlight == 2

Request(k, f, p, l) == [api_key |-> k, audioFormat |-> f, audioBase64 |-> p, language |-> l]

ConcurrentRequests ==
    LET wav    == <<"w", "a", "v">>
        key    == Key(VALID_API_KEY)
        stereo == Clip(TARGET_SR, MaxShort, <<Wave("speech", 4), Wave("impulse", 4)>>)
    IN  { Request(key, wav, Payload(TRUE, AudioBytes(stereo)), "English"),
          Request(key, <<"M", "P", "3">>, Payload(TRUE, AudioBytes(stereo)), "Tamil-script"),
          Request(key, wav, Payload(TRUE, AudioBytes(
                     Clip(8000, MaxShort, <<Wave("const", 4), Wave("alt", 2)>>))), "English"),
          Request(key, wav, Payload(TRUE, AudioBytes(
                     Clip(TARGET_SR, 0, <<Wave("zero", 0)>>))), "English"),
          Request(key, wav, Payload(TRUE, TextBytes), "English"),
          Request(key, wav, Payload(FALSE, EmptyBytes), "English"),
          Request(key, <<"t", "x", "t">>, Payload(TRUE, AudioBytes(stereo)), "English"),
          Request(Key("wrong-key"), wav, Payload(TRUE, AudioBytes(stereo)), "English") }

InitConcurrent ==
    /\ pc = "idle"
    /\ handled = 0
    /\ req = NoRequest
    /\ files = {}
    /\ LocalsInit
    /\ resp = NoResp
    /\ calls = 0
    /\ steps = {}
    /\ oracle \in Spectra
    /\ inflight \in {S \in SUBSET ConcurrentRequests : Cardinality(S) = MaxInFlight}
    /\ answered = << >>

\* The event loop starts the handler of one of the accepted requests.
Dequeue ==
    /\ pc = "idle"
    /\ \E r \in inflight :
          /\ req' = r
          /\ inflight' = inflight \ {r}
    /\ handled' = handled + 1
    /\ pc' = "verify"
    /\ UNCHANGED <<files, locals, resp, calls, steps, oracle, answered>>

\* What a handler run amounted to: the request, the response, what the
\* pipeline held when it ended, and whether its temporary file was left behind.
Run ==
    [req |-> req, resp |-> resp, exc |-> exc, extracted |-> "extract" \in steps,
     signal |-> signal, sr |-> sr, features |-> features,
     classification |-> classification, confidence |-> confidence,
     temp_file |-> temp_file, left |-> temp_file \in files]

\* The response goes out to the client and the handler's frame is released.
Deliver ==
    /\ pc = "done"
    /\ answered' = Append(answered, Run)
    /\ pc' = "idle"
    /\ req' = NoRequest
    /\ LocalsReset
    /\ resp' = NoResp
    /\ calls' = 0
    /\ steps' = {}
    /\ UNCHANGED <<handled, files, oracle, inflight>>

NextConcurrent ==
    \/ Dequeue
    \/ VerifyKey
    \/ ValidateFormat
    \/ B64Decode
    \/ MakeTemp
    \/ WriteTemp
    \/ CloseTemp
    \/ Load
    \/ Unlink
    \/ ResampleStep
    \/ DownmixStep
    \/ ExtractStep
    \/ ClassifyStep
    \/ Except
    \/ Explain
    \/ Respond
    \/ HandlerExcept
    \/ Deliver

SpecConcurrent == InitConcurrent /\ [][NextConcurrent]_vars

\* ------------------------------------------------------------ the pure functions alone

\* Feature vectors on a grid: every score takes the values -1/GridSteps, 0,
\* 1/GridSteps, ..., 1, 1 + 1/GridSteps, and every feature may be NaN.
GridSteps == 4

UnitGrid == {(k * Scale) \div GridSteps : k \in (-1)..(GridSteps + 1)}

FeatureGrid ==
    [zcr               : {NaN} \cup {F(u \div 2) : u \in UnitGrid},
     spectral_centroid : {Zero},
     spectral_flatness : {NaN} \cup {F(u) : u \in UnitGrid},
     energy_std        : {NaN} \cup {F(u * 10000) : u \in UnitGrid}]

\* classify_audio, then get_explanation, on every feature vector of the grid.
InitClassify ==
    /\ pc = "classify"
    /\ handled = 0
    /\ req = NoRequest
    /\ files = {}
    /\ temp_file = 0
    /\ temp_path = 0
    /\ audio_format = << >>
    /\ audio_bytes = EmptyBytes
    /\ signal = << >>
    /\ sr = 0
    /\ features \in FeatureGrid
    /\ classification = ""
    /\ confidence = Zero
    /\ explanation = ""
    /\ exc = << >>
    /\ resp = NoResp
    /\ calls = 0
    /\ steps = {}
    /\ oracle = [flat |-> 0, centroid |-> 0]
    /\ inflight = {}
    /\ answered = << >>

NextClassify == ClassifyStep \/ Explain \/ Respond

SpecClassify == InitClassify /\ [][NextClassify]_vars

\* Confidences from -1/20 to MaxConfSteps/20 in steps of 1/20, the two band
\* edges with their neighbours one unit away, and NaN.
MaxConfSteps == 21

ConfGrid ==
    {NaN} \cup {F(k * (Scale \div 20)) : k \in (-1)..MaxConfSteps}
          \cup {F(StrongBand.v + d) : d \in {-1, 1}}
          \cup {F(ModerateBand.v + d) : d \in {-1, 1}}

\* get_explanation on every label and every confidence of the grid.
InitExplain ==
    /\ pc = "explain"
    /\ handled = 0
    /\ req = NoRequest
    /\ files = {}
    /\ temp_file = 0
    /\ temp_path = 0
    /\ audio_format = << >>
    /\ audio_bytes = EmptyBytes
    /\ signal = << >>
    /\ sr = 0
    /\ features = NoFeatures
    /\ classification \in {AI_GENERATED, HUMAN}
    /\ confidence \in ConfGrid
    /\ explanation = ""
    /\ exc = << >>
    /\ resp = NoResp
    /\ calls = 0
    /\ steps = {}
    /\ oracle = [flat |-> 0, centroid |-> 0]
    /\ inflight = {}
    /\ answered = << >>

NextExplain == Explain \/ Respond

SpecExplain == InitExplain /\ [][NextExplain]_vars


\* ------------------------------------------------------------ properties

\* Two characters that differ at most in letter case.
SameLetter(a, b) ==
    a = b \/ \E k \in 1..Len(Upper) : {a, b} = {Upper[k], LowerOf[k]}

EqualIgnoringCase(x, y) ==
    Len(x) = Len(y) /\ \A i \in 1..Len(x) : SameLetter(x[i], y[i])

\* The declared format is one of mp3, wav, m4a, ogg, flac, aac up to letter case.
NamedFormat(x) ==
    \E y \in { <<"m", "p", "3">>, <<"w", "a", "v">>, <<"m", "4", "a">>,
               <<"o", "g", "g">>, <<"f", "l", "a", "c">>, <<"a", "a", "c">> } :
        EqualIgnoringCase(x, y)

Authenticated == req.api_key = Key("your-secret-api-key-here")

\* process_base64_audio has returned, or has raised.
Returned == pc \in {"explain", "respond"} \/ (pc = "done" /\ resp.status_code = 200)

Raised == pc = "handler_except" \/ (pc = "done" /\ resp.status_code = 500)

\* C1: the confidence classify_audio returns lies in [0, 0.95], whatever the
\* feature vector it was given.
C1_ConfidenceInRange ==
    "classify" \in steps =>
        /\ ~confidence.nan
        /\ 0 <= confidence.v
        /\ 100 * confidence.v <= 95 * Scale

\* C2: ai_score = 0.3*min(zcr/0.5, 1) + 0.4*(1 - min(flatness, 1))
\* + 0.3*(1 - min(energy_std/10000, 1)); the result is (AI_GENERATED,
\* min(ai_score, 0.95)) exactly when ai_score > 0.6 and (HUMAN,
\* min(1 - ai_score, 0.95)) otherwise, so a score of exactly 0.6 is HUMAN and a
\* NaN score is HUMAN with a NaN confidence.  ai10 is ten times ai_score.
C2_DecisionRule ==
    pc = "explain" =>
        LET f    == features
            z    == Min(2 * f.zcr.v, Scale)
            sp   == Scale - Min(f.spectral_flatness.v, Scale)
            e    == Scale - Min(f.energy_std.v \div 10000, Scale)
            ai10 == 3 * z + 4 * sp + 3 * e
            cap  == (95 * Scale) \div 10
        IN  IF f.zcr.nan \/ f.spectral_flatness.nan \/ f.energy_std.nan
            THEN classification = "HUMAN" /\ confidence.nan
            ELSE IF ai10 > 6 * Scale
            THEN /\ classification = "AI_GENERATED"
                 /\ ~confidence.nan
                 /\ 10 * confidence.v = Min(ai10, cap)
            ELSE /\ classification = "HUMAN"
                 /\ ~confidence.nan
                 /\ 10 * confidence.v = Min(10 * Scale - ai10, cap)

\* A score of exactly 0.6 (zcr 0.5, flatness 1, energy_std 0) came out HUMAN
\* with confidence 0.4.
C2_TieIsHuman ==
    /\ pc = "explain"
    /\ features.zcr = F(Scale \div 2)
    /\ features.spectral_flatness = F(Scale)
    /\ features.energy_std = F(0)
    /\ classification = "HUMAN"
    /\ confidence = F((4 * Scale) \div 10)

\* C3: get_explanation returns, for either label and any confidence, one of
\* six distinct non-empty sentences: the label's strong one when confidence
\* >= 0.85, its moderate one when 0.70 <= confidence < 0.85, its possible/mostly
\* one when confidence < 0.70.
C3_ExplanationBands ==
    pc = "respond" =>
        LET ai  == classification = "AI_GENERATED"
            c   == confidence
            six == {AI_STRONG, AI_MODERATE, AI_POSSIBLE,
                    HUMAN_STRONG, HUMAN_MODERATE, HUMAN_MOSTLY}
        IN  /\ Cardinality(six) = 6
            /\ explanation \in six
            /\ explanation # ""
            /\ explanation \in (IF ai THEN {AI_STRONG, AI_MODERATE, AI_POSSIBLE}
                                      ELSE {HUMAN_STRONG, HUMAN_MODERATE, HUMAN_MOSTLY})
            /\ (~c.nan /\ 100 * c.v >= 85 * Scale)
                  => explanation = (IF ai THEN AI_STRONG ELSE HUMAN_STRONG)
            /\ (~c.nan /\ 100 * c.v >= 70 * Scale /\ 100 * c.v < 85 * Scale)
                  => explanation = (IF ai THEN AI_MODERATE ELSE HUMAN_MODERATE)
            /\ (~c.nan /\ 100 * c.v < 70 * Scale)
                  => explanation = (IF ai THEN AI_POSSIBLE ELSE HUMAN_MOSTLY)

\* A confidence of exactly 0.85 got the strong sentence.
C3_EdgeIsUpperBand ==
    /\ pc = "respond"
    /\ classification = "HUMAN"
    /\ confidence = F((85 * Scale) \div 100)
    /\ explanation = HUMAN_STRONG

\* C4: once process_base64_audio has created its temporary file, the file is
\* gone when the function has returned or raised.
C4_TempFileRemoved ==
    (temp_file # 0 /\ (Returned \/ Raised)) => temp_file \notin files

\* C5: with a valid key, a declared format that is one of the six names up to
\* letter case enters the pipeline and is handed to it as declared; any other
\* format ends in a 400 error with no base64 decoding, no temporary file and no
\* audio decoding attempted.
C5_FormatGate ==
    (Authenticated /\ pc \notin {"idle", "verify", "format"}) =>
        IF NamedFormat(req.audioFormat)
        THEN /\ calls = 1
             /\ audio_format = req.audioFormat
             /\ resp.status_code # 400
        ELSE /\ pc = "done"
             /\ resp.status_code = 400
             /\ resp.status = "error"
             /\ calls = 0
             /\ steps = {}
             /\ temp_file = 0

\* An unsupported format was answered 400 with nothing attempted.
C5_RejectedBeforeDecode ==
    /\ pc = "done"
    /\ Authenticated
    /\ req.audioFormat = <<"t", "x", "t">>
    /\ req.audioBase64.data.kind = "audio"
    /\ resp.status_code = 400
    /\ steps = {}

\* C6: a request whose X-API-Key is missing or is not the secret gets 401,
\* status "error" and a message containing "Invalid API key", and
\* process_base64_audio is never invoked for it.
C6_BadKeyIs401 ==
    (~Authenticated /\ pc \notin {"idle", "verify"}) =>
        /\ pc = "done"
        /\ resp.status_code = 401
        /\ resp.status = "error"
        /\ Contains(resp.message, <<"Invalid", "API", "key">>)
        /\ calls = 0
        /\ steps = {}

\* A request without the header was answered 401.
C6_MissingKeyRejected ==
    /\ pc = "done"
    /\ ~req.api_key.present
    /\ NamedFormat(req.audioFormat)
    /\ req.audioBase64.data.kind = "audio"
    /\ resp.status_code = 401

\* C7: for an authenticated request with a supported format, a failure raised
\* inside the pipeline ends in a 500 response with status "error", never in a
\* success response, and the pipeline runs at most once per request.
C7_PipelineFailureIs500 ==
    (Authenticated /\ NamedFormat(req.audioFormat)) =>
        /\ calls <= 1
        /\ exc # << >> =>
              /\ resp.status # "success"
              /\ resp.status_code \in {0, 500}
              /\ pc = "done" => (resp.status_code = 500 /\ resp.status = "error")

\* Undecodable audio was answered 500.
C7_LoadFailureAnswered ==
    /\ pc = "done"
    /\ Authenticated
    /\ req.audioBase64.data.kind = "text"
    /\ "load" \in steps
    /\ exc # << >>
    /\ calls = 1
    /\ resp.status_code = 500

\* C8: an authenticated request whose payload is not audio is rejected with
\* 400, status "error" and a message containing "Invalid file type".
C8_NonAudioIs400 ==
    (Authenticated /\ req.audioBase64.data.kind = "text" /\ pc = "done") =>
        /\ resp.status_code = 400
        /\ resp.status = "error"
        /\ Contains(resp.message, <<"Invalid", "file", "type">>)

\* The channels of the request's clip as the loader and the resampler give them.
ChannelsAt16k ==
    LET clip == req.audioBase64.data.clip
    IN  IF clip.sr # 16000 THEN Resample(Decode(clip), clip.sr) ELSE Decode(clip)

\* C9: when the decoded audio has more than one channel, the signal the
\* features are computed on is one row that holds, at every sample index, the
\* arithmetic mean of all channels at that index; two constant channels c1 and
\* c2 give the constant (c1 + c2)/2.
C9_DownmixIsMean ==
    (pc \in {"extract", "classify"} /\ Len(req.audioBase64.data.clip.chans) > 1) =>
        LET ch   == ChannelsAt16k
            n    == Len(ch)
            mono == FirstRow(signal)
            w    == req.audioBase64.data.clip.chans
        IN  /\ Len(signal) = 1
            /\ Len(mono) = Len(ch[1])
            /\ \A i \in 1..Len(mono) :
                  n * mono[i] = SeqSum([c \in 1..n |-> ch[c][i]], 1, n)
            /\ (n = 2 /\ w[1].kind = "const" /\ w[2].kind = "const")
                  => \A i \in 1..Len(mono) : 2 * mono[i] = w[1].amp + w[2].amp
            /\ pc = "classify" => features.zcr = ZeroCrossingRate(mono)

\* Two constant channels 1.0 and 0.5 were mixed down to the constant 0.75.
C9_StereoConstants ==
    /\ pc = "extract"
    /\ req.audioBase64.data.clip.chans = <<Wave("const", 4), Wave("const", 2)>>
    /\ Len(signal) = 1
    /\ Len(signal[1]) > 1
    /\ \A i \in 1..Len(signal[1]) : signal[1][i] = 3

\* The feature extractor has run on the signal in hand.
Extracted == "extract" \in steps

C11_SilenceIsClassified ==
    (Extracted /\ Len(FirstRow(signal)) > 0 /\ AllZero(FirstRow(signal))) =>
        /\ exc = << >>
        /\ features.zcr = F(0)
        /\ ~features.spectral_centroid.nan
        /\ ~features.spectral_flatness.nan
        /\ "classify" \in steps => classification \in {"AI_GENERATED", "HUMAN"}

\* C12: extract_audio_features only ever runs on a signal of one sample or
\* more, and a request whose decoded audio has no sample is never answered with
\* a classification.
C12_EmptySignalRejected ==
    /\ Extracted => Len(FirstRow(signal)) > 0
    /\ (pc = "done" /\ "load" \in steps /\ req.audioBase64.data.kind = "audio"
            /\ req.audioBase64.data.clip.len = 0)
          => (resp.status = "error" /\ resp.classification = "")

\* C13: no NaN feature reaches classify_audio, and no success response carries
\* a NaN confidenceScore.
C13_NaNFeatureIsAnError ==
    /\ "classify" \in steps =>
          /\ ~features.zcr.nan
          /\ ~features.spectral_centroid.nan
          /\ ~features.spectral_flatness.nan
          /\ ~features.energy_std.nan
    /\ resp.status = "success" => ~resp.confidenceScore.nan

IsAloneResponse(out, r, e) ==
    IF r.api_key # Key("your-secret-api-key-here")
    THEN out = ErrorResponse(401, MSG_401)
    ELSE IF ~NamedFormat(r.audioFormat)
    THEN out = ErrorResponse(400, MSG_400)
    ELSE IF e # << >>
    THEN out = ErrorResponse(500, Msg500(e))
    ELSE LET clip == r.audioBase64.data.clip
         IN  \E at16 \in {IF clip.sr # 16000 THEN Resample(Decode(clip), clip.sr)
                                              ELSE Decode(clip)} :
             \E mono \in {Downmixed(at16)} :
             \E f \in {extract_audio_features(mono, 16000, oracle)} :
             \E res \in {classify_audio(f)} :
                 out = SuccessResponse(r.language, res.classification, res.confidence,
                                       get_explanation(res.confidence, res.classification))

C17_EveryFullFrame ==
    (pc = "classify" /\ sr = 16000) =>
        LET sig      == FirstRow(signal)
            L        == Len(sig)
            n        == IF L < 400 THEN 0 ELSE ((L - 400) \div 160) + 1
            sq       == [j \in 1..L |-> sig[j] * sig[j]]
            expected == [k \in 1..n |-> SeqSum(sq, 160 * (k - 1) + 1, 160 * (k - 1) + 400)]
        IN  /\ energy_variations(sig, sr) = expected
            /\ features.energy_std = (IF n > 0 THEN StdOf(expected) ELSE F(0))

\* C18: in every success response with a numeric confidenceScore, the strong
\* sentence appears exactly when the reported confidenceScore >= 0.85, the
\* moderate one exactly when 0.70 <= confidenceScore < 0.85, and the
\* possible/mostly one exactly when confidenceScore < 0.70.
C18_BandMatchesReported ==
    (pc = "done" /\ resp.status = "success" /\ ~resp.confidenceScore.nan) =>
        LET c == resp.confidenceScore.v
        IN  /\ resp.explanation \in {AI_STRONG, HUMAN_STRONG} <=> 100 * c >= 85 * Scale
            /\ resp.explanation \in {AI_MODERATE, HUMAN_MODERATE}
                  <=> (100 * c >= 70 * Scale /\ 100 * c < 85 * Scale)
            /\ resp.explanation \in {AI_POSSIBLE, HUMAN_MOSTLY} <=> 100 * c < 70 * Scale

\* C19: when zcr, spectral_flatness and energy_std are numbers >= 0, ai_score
\* lies in [0, 1] and the confidence classify_audio returns is at least 0.4; it
\* is above 0.6 when the label is AI_GENERATED and at least 0.4 when it is HUMAN.
C19_ScoreBounds ==
    (/\ pc = "explain"
     /\ ~features.zcr.nan /\ features.zcr.v >= 0
     /\ ~features.spectral_flatness.nan /\ features.spectral_flatness.v >= 0
     /\ ~features.energy_std.nan /\ features.energy_std.v >= 0) =>
        LET score == ai_score(features)
        IN  /\ ~score.nan
            /\ 0 <= score.v
            /\ score.v <= Scale
            /\ ~confidence.nan
            /\ 10 * confidence.v >= 4 * Scale
            /\ classification \in {"AI_GENERATED", "HUMAN"}
            /\ classification = "AI_GENERATED" => 10 * confidence.v > 6 * Scale
            /\ classification = "HUMAN" => 10 * confidence.v >= 4 * Scale

\* A score of 1.0 (zcr 0.5, flatness 0, energy_std 0) came out AI_GENERATED with
\* the confidence capped at 0.95.
C19_FullScoreIsCapped ==
    /\ pc = "explain"
    /\ features.zcr = F(Scale \div 2)
    /\ features.spectral_flatness = F(0)
    /\ features.energy_std = F(0)
    /\ ai_score(features) = F(Scale)
    /\ classification = "AI_GENERATED"
    /\ confidence = F((95 * Scale) \div 100)


====
